---- MODULE Spec2Model ----
(***************************************************************************)
(* Model of the passifier secret store: the nested map (lib/nested_map),   *)
(* the path navigator on it, and the create / read / update / delete       *)
(* operations of src/store.rs and src/ops.rs.                              *)
(*                                                                         *)
(* A NestedMap is a function from a finite set of keys to nodes.  A node   *)
(* is a record [kind, val, map]: kind "Leaf" carries val, kind "Branch"    *)
(* carries map.  An Option is a sequence of length 0 (None) or 1 (Some).   *)
(***************************************************************************)
EXTENDS Integers, Sequences, FiniteSets, TLC

VARIABLES store, last

vars == <<store, last>>

(***************************************************************************)
(* Bounds of the model.                                                    *)
(***************************************************************************)
MaxPathLen == 3
MaxNodes == 4

Keys == {"a", "b"}
Vals == {"v", "w"}

(***************************************************************************)
(* Data model.                                                             *)
(***************************************************************************)
EmptyMap == [k \in {} |-> 0]

Leaf(v) == [kind |-> "Leaf", val |-> v, map |-> EmptyMap]

Branch(m) == [kind |-> "Branch", val |-> "", map |-> m]

None == <<>>

Some(x) == <<x>>

Single(k, n) == [x \in {k} |-> n]

map_is_empty(m) == DOMAIN m = {}

map_get(m, k) == IF k \in DOMAIN m THEN Some(m[k]) ELSE None

map_insert(m, k, n) == [x \in (DOMAIN m) \cup {k} |-> IF x = k THEN n ELSE m[x]]

map_remove(m, k) == [x \in (DOMAIN m) \ {k} |-> m[x]]

Node_get(n, k) == IF n.kind = "Branch" THEN map_get(n.map, k) ELSE None

(***************************************************************************)
(* Path navigator (lib/nested_map).                                        *)
(***************************************************************************)
RECURSIVE get_from_node_partial(_, _)
get_from_node_partial(root, rest) ==
    IF rest = <<>> THEN Some(root)
    ELSE LET next == Node_get(root, Head(rest))
         IN  IF next = None THEN Some(root)
             ELSE get_from_node_partial(next[1], Tail(rest))

RECURSIVE get_from_node(_, _)
get_from_node(root, rest) ==
    IF rest = <<>> THEN Some(root)
    ELSE LET next == Node_get(root, Head(rest))
         IN  IF next = None THEN None ELSE get_from_node(next[1], Tail(rest))

get_from_iter_root(m, path) ==
    IF path = <<>> THEN Some(Branch(m))
    ELSE LET first == map_get(m, Head(path))
         IN  IF first = None THEN None ELSE get_from_node(first[1], Tail(path))

get_from_iter(m, path) ==
    IF path = <<>> THEN None
    ELSE LET first == map_get(m, Head(path))
         IN  IF first = None THEN None ELSE get_from_node(first[1], Tail(path))

contains_path_iter(m, path) == get_from_iter(m, path) # None

RemoveLast(m, k) == [map |-> map_remove(m, k), ret |-> map_get(m, k)]

RECURSIVE remove_from_iter_prunes(_, _)
remove_from_iter_prunes(m, path) ==
    IF path = <<>> THEN [map |-> m, ret |-> None]
    ELSE IF Len(path) = 1 THEN RemoveLast(m, Head(path))
    ELSE LET next == map_get(m, Head(path))
         IN  IF next = None THEN [map |-> m, ret |-> None]
             ELSE IF next[1].kind # "Branch" THEN [map |-> m, ret |-> None]
             ELSE LET r == remove_from_iter_prunes(next[1].map, Tail(path))
                  IN  [map |-> IF map_is_empty(r.map) THEN map_remove(m, Head(path))
                               ELSE map_insert(m, Head(path), Branch(r.map)),
                       ret |-> r.ret]

RECURSIVE remove_from_iter(_, _)
remove_from_iter(m, path) ==
    IF path = <<>> THEN [map |-> m, ret |-> None]
    ELSE IF Len(path) = 1 THEN RemoveLast(m, Head(path))
    ELSE LET next == map_get(m, Head(path))
         IN  IF next = None THEN [map |-> m, ret |-> None]
             ELSE IF next[1].kind # "Branch" THEN [map |-> m, ret |-> None]
             ELSE LET r == remove_from_iter(next[1].map, Tail(path))
                  IN  [map |-> map_insert(m, Head(path), Branch(r.map)),
                       ret |-> r.ret]

RECURSIVE insert_into_iter(_, _, _)
insert_into_iter(m, path, node) ==
    IF path = <<>> THEN m
    ELSE IF Len(path) = 1 THEN map_insert(m, Head(path), node)
    ELSE LET next == map_get(m, Head(path))
         IN  IF next = None
             THEN map_insert(m, Head(path),
                             Branch(insert_into_iter(EmptyMap, Tail(path), node)))
             ELSE IF next[1].kind # "Branch" THEN m
             ELSE map_insert(m, Head(path),
                             Branch(insert_into_iter(next[1].map, Tail(path), node)))

(***************************************************************************)
(* Secret store (src/store.rs, src/ops.rs).  Every operation yields the    *)
(* tree it leaves behind, its result ("Ok", an error message, or "panic")  *)
(* and, for read, the node returned.                                       *)
(***************************************************************************)
Result(m, res, out) == [store |-> m, res |-> res, out |-> out]

should_delete_any_branch(secret) == secret.kind = "Branch"

should_delete(secret) == secret.kind = "Branch" /\ map_is_empty(secret.map)

RECURSIVE inspect_end_is_new(_, _)
inspect_end_is_new(m, path) ==
    IF path = <<>> THEN TRUE
    ELSE LET next == map_get(m, Head(path))
         IN  IF next = None THEN TRUE
             ELSE IF next[1].kind = "Leaf" THEN FALSE
             ELSE inspect_end_is_new(next[1].map, Tail(path))

RECURSIVE inspect(_, _)
inspect(m, path) ==
    IF path = <<>> THEN FALSE
    ELSE LET next == map_get(m, Head(path))
         IN  IF next = None THEN TRUE
             ELSE IF next[1].kind = "Leaf" THEN FALSE
             ELSE inspect(next[1].map, Tail(path))

is_new_entry_top_only(m, path) == path # <<>> /\ map_get(m, Head(path)) = None

is_new_entry(m, path) == inspect(m, path)

RECURSIVE clean_up_no_remove(_, _)
clean_up_no_remove(m, path) ==
    IF map_is_empty(m) THEN [map |-> m, ret |-> TRUE, panic |-> FALSE]
    ELSE IF path = <<>> THEN [map |-> m, ret |-> FALSE, panic |-> TRUE]
    ELSE LET next == map_get(m, Head(path))
         IN  IF next = None
             THEN [map |-> m, ret |-> map_is_empty(m), panic |-> FALSE]
             ELSE IF next[1].kind # "Branch"
             THEN [map |-> m, ret |-> FALSE, panic |-> TRUE]
             ELSE LET r == clean_up_no_remove(next[1].map, Tail(path))
                      kept == map_insert(m, Head(path), Branch(r.map))
                  IN  [map |-> kept, ret |-> map_is_empty(kept), panic |-> r.panic]

RECURSIVE clean_up_always_remove(_, _)
clean_up_always_remove(m, path) ==
    IF map_is_empty(m) THEN [map |-> m, ret |-> TRUE, panic |-> FALSE]
    ELSE IF path = <<>> THEN [map |-> m, ret |-> FALSE, panic |-> TRUE]
    ELSE LET next == map_get(m, Head(path))
         IN  IF next = None
             THEN [map |-> m, ret |-> map_is_empty(m), panic |-> FALSE]
             ELSE IF next[1].kind # "Branch"
             THEN [map |-> m, ret |-> FALSE, panic |-> TRUE]
             ELSE LET r == clean_up_always_remove(next[1].map, Tail(path))
                      after == map_remove(m, Head(path))
                  IN  IF r.panic THEN [map |-> m, ret |-> FALSE, panic |-> TRUE]
                      ELSE [map |-> after, ret |-> map_is_empty(after),
                            panic |-> FALSE]

RECURSIVE clean_up(_, _)
clean_up(m, path) ==
    IF map_is_empty(m) THEN [map |-> m, ret |-> TRUE, panic |-> FALSE]
    ELSE IF path = <<>> THEN [map |-> m, ret |-> FALSE, panic |-> TRUE]
    ELSE LET next == map_get(m, Head(path))
         IN  IF next = None
             THEN [map |-> m, ret |-> map_is_empty(m), panic |-> FALSE]
             ELSE IF next[1].kind # "Branch"
             THEN [map |-> m, ret |-> FALSE, panic |-> TRUE]
             ELSE LET r == clean_up(next[1].map, Tail(path))
                      kept == map_insert(m, Head(path), Branch(r.map))
                      after == IF r.ret THEN map_remove(kept, Head(path)) ELSE kept
                  IN  IF r.panic THEN [map |-> kept, ret |-> FALSE, panic |-> TRUE]
                      ELSE [map |-> after, ret |-> map_is_empty(after),
                            panic |-> FALSE]

delete_path_ignores_missing(m, path) ==
    LET removed == remove_from_iter(m, path)
        c == clean_up(removed.map, path)
    IN  IF c.panic THEN Result(c.map, "panic", None)
        ELSE IF c.ret /\ path # <<>>
        THEN Result(map_remove(c.map, Head(path)), "Ok", None)
        ELSE Result(c.map, "Ok", None)

delete_path_removes_top(m, path) ==
    LET removed == remove_from_iter(m, path)
    IN  IF removed.ret = None THEN Result(removed.map, "Not found", None)
        ELSE Result(map_remove(removed.map, Head(path)), "Ok", None)

delete_path(m, path) ==
    LET removed == remove_from_iter(m, path)
    IN  IF removed.ret = None THEN Result(removed.map, "Not found", None)
        ELSE LET c == clean_up(removed.map, path)
             IN  IF c.panic THEN Result(c.map, "panic", None)
                 ELSE IF c.ret THEN Result(map_remove(c.map, Head(path)), "Ok", None)
                 ELSE Result(c.map, "Ok", None)

create_conflict_first(m, path, secret) ==
    IF ~is_new_entry(m, path) THEN Result(m, "Conflict", None)
    ELSE IF should_delete(secret) THEN Result(m, "Empty secret", None)
    ELSE Result(insert_into_iter(m, path, secret), "Ok", None)

create(m, path, secret) ==
    IF should_delete(secret) THEN Result(m, "Empty secret", None)
    ELSE IF is_new_entry(m, path)
    THEN Result(insert_into_iter(m, path, secret), "Ok", None)
    ELSE Result(m, "Conflict", None)

ops_create_overwrites(m, path, secret) ==
    IF should_delete(secret) THEN Result(m, "Empty secret", None)
    ELSE Result(insert_into_iter(m, path, secret), "Ok", None)

ops_create(m, path, secret) ==
    IF should_delete(secret) THEN Result(m, "Empty secret", None)
    ELSE IF contains_path_iter(m, path) THEN Result(m, "Conflict", None)
    ELSE Result(insert_into_iter(m, path, secret), "Ok", None)

read_take(m, path) ==
    LET removed == remove_from_iter(m, path)
    IN  IF removed.ret = None THEN Result(m, "Not found", None)
        ELSE Result(removed.map, "Ok", removed.ret)

read(m, path) ==
    LET node == get_from_iter(m, path)
    IN  IF node = None THEN Result(m, "Not found", None)
        ELSE Result(m, "Ok", node)

update_upsert(m, path, secret) ==
    IF should_delete(secret) THEN delete_path(m, path)
    ELSE Result(insert_into_iter(m, path, secret), "Ok", None)

update_inserts_empty(m, path, secret) ==
    IF ~contains_path_iter(m, path) THEN Result(m, "Not found", None)
    ELSE Result(insert_into_iter(m, path, secret), "Ok", None)

update(m, path, secret) ==
    IF ~contains_path_iter(m, path) THEN Result(m, "Not found", None)
    ELSE IF should_delete(secret) THEN delete_path(m, path)
    ELSE Result(insert_into_iter(m, path, secret), "Ok", None)

delete(m, path) == delete_path(m, path)

(***************************************************************************)
(* Inputs and measures used to bound the state space.                      *)
(***************************************************************************)
RECURSIVE SeqsOfLen(_)
SeqsOfLen(n) ==
    IF n = 0 THEN {<<>>}
    ELSE {<<k>> \o p : k \in Keys, p \in SeqsOfLen(n - 1)}

Paths == UNION {SeqsOfLen(n) : n \in 0..MaxPathLen}

Leaves == {Leaf(v) : v \in Vals}

EntryMaps ==
    {EmptyMap, Single("a", Leaf("v")), Single("a", Branch(EmptyMap))}

Entries == Leaves \cup {Branch(m) : m \in EntryMaps}

RECURSIVE SumOver(_, _)
RECURSIVE NodeCount(_)
SumOver(m, ks) ==
    IF ks = {} THEN 0
    ELSE LET k == CHOOSE x \in ks : TRUE
         IN  1 + (IF m[k].kind = "Branch" THEN NodeCount(m[k].map) ELSE 0)
               + SumOver(m, ks \ {k})

NodeCount(m) == SumOver(m, DOMAIN m)

NoOp == [op |-> "new", path |-> <<>>, secret |-> Leaf(""), pre |-> EmptyMap,
         res |-> "Ok", out |-> None]

Apply(op, path, secret, r) ==
    /\ last.op = "new"
    /\ NodeCount(r.store) <= MaxNodes
    /\ store' = r.store
    /\ last' = [op |-> op, path |-> path, secret |-> secret, pre |-> store,
                res |-> r.res, out |-> r.out]

(***************************************************************************)
(* State machine: a store built by Store::new and then operated on by one  *)
(* caller, one operation at a time.  last records the call that has just   *)
(* returned; Return hands control back to the caller, which may then issue *)
(* the next call on the same store.  A panic ends the run.                 *)
(***************************************************************************)
Init ==
    /\ store = EmptyMap
    /\ last = NoOp

Create ==
    /\ last.op = "new"
    /\ \E path \in Paths, secret \in Entries :
           Apply("create", path, secret, create(store, path, secret))

OpsCreate ==
    /\ last.op = "new"
    /\ \E path \in Paths, secret \in Entries :
           Apply("ops_create", path, secret, ops_create(store, path, secret))

Read ==
    /\ last.op = "new"
    /\ \E path \in Paths :
           Apply("read", path, Leaf(""), read(store, path))

Update ==
    /\ last.op = "new"
    /\ \E path \in Paths, secret \in Entries :
           Apply("update", path, secret, update(store, path, secret))

Delete ==
    /\ last.op = "new"
    /\ \E path \in Paths :
           Apply("delete", path, Leaf(""), delete(store, path))

Return ==
    /\ last.op # "new"
    /\ last.res # "panic"
    /\ store' = store
    /\ last' = NoOp

Next == Create \/ OpsCreate \/ Read \/ Update \/ Delete \/ Return

Spec == Init /\ [][Next]_vars

TypeOK ==
    /\ NodeCount(store) <= MaxNodes
    /\ last.res \in {"Ok", "Not found", "Conflict", "Empty secret", "panic"}

(***************************************************************************)
(* Vocabulary of the properties.  NodeAt resolves a path from its last     *)
(* segment backwards, independently of the navigator above.  A tree of at  *)
(* most MaxNodes nodes has no path longer than MaxNodes, so AllPaths holds *)
(* every path that can resolve.                                            *)
(***************************************************************************)
AllPaths == UNION {SeqsOfLen(n) : n \in 0..MaxNodes}

Front(p) == SubSeq(p, 1, Len(p) - 1)

IsPrefix(p, q) == Len(p) <= Len(q) /\ SubSeq(q, 1, Len(p)) = p

ProperPrefixes(p) == {SubSeq(p, 1, n) : n \in 1..(Len(p) - 1)}

RECURSIVE NodeAt(_, _)
NodeAt(m, p) ==
    IF p = <<>> THEN None
    ELSE IF Len(p) = 1 THEN (IF p[1] \in DOMAIN m THEN Some(m[p[1]]) ELSE None)
    ELSE LET parent == NodeAt(m, Front(p))
         IN  IF parent = None THEN None
             ELSE IF parent[1].kind # "Branch" THEN None
             ELSE IF p[Len(p)] \notin DOMAIN parent[1].map THEN None
             ELSE Some(parent[1].map[p[Len(p)]])

Resolves(m, p) == NodeAt(m, p) # None

IsLeafAt(m, p) == Resolves(m, p) /\ NodeAt(m, p)[1].kind = "Leaf"

IsBranchAt(m, p) == Resolves(m, p) /\ NodeAt(m, p)[1].kind = "Branch"

LeafAtProperPrefix(m, p) == \E q \in ProperPrefixes(p) : IsLeafAt(m, q)

IsEmptyBranch(n) == n = Branch(EmptyMap)

HasEmptyBranch(m) == \E q \in AllPaths : NodeAt(m, q) = Some(Branch(EmptyMap))

KeepsContent(m, q, path) ==
    \E r \in AllPaths : IsPrefix(q, r) /\ ~IsPrefix(path, r) /\ IsLeafAt(m, r)

IsCreate == last.op \in {"create", "ops_create"}

(***************************************************************************)
(* C1: create on a path that already resolves (to a Leaf or a Branch),     *)
(* with a non-empty entry, fails with Conflict and leaves the tree as it   *)
(* was.                                                                    *)
(***************************************************************************)
C1_CreateConflict ==
    (IsCreate /\ Resolves(last.pre, last.path) /\ ~IsEmptyBranch(last.secret))
        => (last.res = "Conflict" /\ store = last.pre)

C1_Witness ==
    /\ IsCreate
    /\ IsBranchAt(last.pre, last.path)
    /\ Len(last.path) >= 2
    /\ ~IsEmptyBranch(last.secret)
    /\ last.res = "Conflict"

(***************************************************************************)
(* C2: create on a path of length >= 1 that does not resolve and has no    *)
(* Leaf at a proper prefix, with a non-empty entry, succeeds; read(path)   *)
(* then returns the entry, every proper prefix resolves to a Branch, and   *)
(* every path that resolved before still resolves, a Leaf to the same      *)
(* value.                                                                  *)
(***************************************************************************)
C2_CreateInserts ==
    (/\ IsCreate
     /\ Len(last.path) >= 1
     /\ ~Resolves(last.pre, last.path)
     /\ ~LeafAtProperPrefix(last.pre, last.path)
     /\ ~IsEmptyBranch(last.secret))
        => /\ last.res = "Ok"
           /\ read(store, last.path) = Result(store, "Ok", Some(last.secret))
           /\ NodeAt(store, last.path) = Some(last.secret)
           /\ \A q \in ProperPrefixes(last.path) : IsBranchAt(store, q)
           /\ \A q \in AllPaths :
                  Resolves(last.pre, q)
                      => /\ Resolves(store, q)
                         /\ IsLeafAt(last.pre, q)
                                => NodeAt(store, q) = NodeAt(last.pre, q)

C2_Witness ==
    /\ IsCreate
    /\ Len(last.path) = 3
    /\ last.pre # EmptyMap
    /\ ~Resolves(last.pre, Front(last.path))
    /\ ~LeafAtProperPrefix(last.pre, last.path)
    /\ last.res = "Ok"
    /\ NodeAt(store, last.path) = Some(last.secret)

(***************************************************************************)
(* C3: create on a path one of whose proper prefixes resolves to a Leaf    *)
(* fails with an error and leaves the tree unchanged.                      *)
(***************************************************************************)
C3_CreateUnderLeafFails ==
    (IsCreate /\ LeafAtProperPrefix(last.pre, last.path))
        => (last.res \in {"Conflict", "Empty secret"} /\ store = last.pre)

(***************************************************************************)
(* C4: create with a Branch of zero entries fails with 'Empty secret' and  *)
(* leaves the tree unchanged, whether or not the path resolves: the empty  *)
(* check comes before the conflict check.                                  *)
(***************************************************************************)
C4_CreateEmptySecret ==
    (IsCreate /\ IsEmptyBranch(last.secret))
        => (last.res = "Empty secret" /\ store = last.pre)

C4_Witness ==
    /\ IsCreate
    /\ IsEmptyBranch(last.secret)
    /\ Resolves(last.pre, last.path)
    /\ last.res = "Empty secret"

(***************************************************************************)
(* C5: read never changes the tree, a second read returns the same result, *)
(* and read fails with 'Not found' exactly when the path does not resolve; *)
(* otherwise it returns the node at the path.                              *)
(***************************************************************************)
C5_ReadPure ==
    (last.op = "read")
        => /\ store = last.pre
           /\ read(store, last.path) = Result(last.pre, last.res, last.out)
           /\ (last.res = "Not found") <=> (get_from_iter(last.pre, last.path) = None)
           /\ last.res \in {"Ok", "Not found"}
           /\ (last.res = "Ok") <=> Resolves(last.pre, last.path)
           /\ last.out = NodeAt(last.pre, last.path)

C5_Witness ==
    /\ last.op = "read"
    /\ Len(last.path) >= 2
    /\ last.res = "Ok"
    /\ last.out # None
    /\ store = last.pre

(***************************************************************************)
(* C6: update on a path that does not resolve fails with 'Not found' for   *)
(* every entry, the empty Branch included, and leaves the tree unchanged:  *)
(* it never creates the path.                                              *)
(***************************************************************************)
C6_UpdateNotFound ==
    (last.op = "update" /\ ~Resolves(last.pre, last.path))
        => (last.res = "Not found" /\ store = last.pre)

C6_Witness ==
    /\ last.op = "update"
    /\ LeafAtProperPrefix(last.pre, last.path)
    /\ IsEmptyBranch(last.secret)
    /\ last.res = "Not found"

(***************************************************************************)
(* C7 as stated: update on a path that resolves, with an entry that is not *)
(* an empty Branch, succeeds, read(path) then returns the entry, and every *)
(* path that is neither the path nor an extension of it resolves exactly   *)
(* as before.                                                              *)
(***************************************************************************)
C7_UpdateReplacesAsStated ==
    (/\ last.op = "update"
     /\ Resolves(last.pre, last.path)
     /\ ~IsEmptyBranch(last.secret))
        => /\ last.res = "Ok"
           /\ read(store, last.path) = Result(store, "Ok", Some(last.secret))
           /\ \A q \in AllPaths :
                  ~IsPrefix(last.path, q)
                      => NodeAt(store, q) = NodeAt(last.pre, q)

(***************************************************************************)
(* C7 amended: update on a path that resolves, with an entry that is not   *)
(* an empty Branch, succeeds and replaces the whole node at the path:      *)
(* read(path) then returns the entry, every proper prefix of the path      *)
(* still resolves to a Branch, and every path that is neither a prefix of  *)
(* the path, nor the path, nor an extension of it resolves exactly as      *)
(* before.                                                                 *)
(***************************************************************************)
C7_UpdateReplaces ==
    (/\ last.op = "update"
     /\ Resolves(last.pre, last.path)
     /\ ~IsEmptyBranch(last.secret))
        => /\ last.res = "Ok"
           /\ read(store, last.path) = Result(store, "Ok", Some(last.secret))
           /\ NodeAt(store, last.path) = Some(last.secret)
           /\ \A q \in ProperPrefixes(last.path) : IsBranchAt(store, q)
           /\ \A q \in AllPaths :
                  (~IsPrefix(last.path, q) /\ ~IsPrefix(q, last.path))
                      => NodeAt(store, q) = NodeAt(last.pre, q)

C7_Witness ==
    /\ last.op = "update"
    /\ IsBranchAt(last.pre, last.path)
    /\ Len(last.path) >= 2
    /\ last.secret.kind = "Leaf"
    /\ last.res = "Ok"
    /\ NodeAt(store, last.path) = Some(last.secret)
    /\ \E q \in AllPaths : ~IsPrefix(q, last.path) /\ Resolves(store, q)

(***************************************************************************)
(* C8: update of a path that resolves with a Branch of zero entries        *)
(* succeeds and leaves the tree that delete of the same path leaves on the *)
(* same starting tree, pruned ancestors included.                          *)
(***************************************************************************)
C8_UpdateEmptyIsDelete ==
    (/\ last.op = "update"
     /\ Resolves(last.pre, last.path)
     /\ IsEmptyBranch(last.secret))
        => /\ last.res = "Ok"
           /\ delete(last.pre, last.path).res = "Ok"
           /\ store = delete(last.pre, last.path).store
           /\ ~Resolves(store, last.path)

C8_Witness ==
    /\ last.op = "update"
    /\ Resolves(last.pre, last.path)
    /\ IsEmptyBranch(last.secret)
    /\ Len(last.path) >= 2
    /\ last.res = "Ok"
    /\ ~Resolves(store, Front(last.path))
    /\ store # EmptyMap

(***************************************************************************)
(* C9: delete on a path that does not resolve fails with 'Not found': it   *)
(* does not panic, removes nothing and prunes nothing.                     *)
(***************************************************************************)
C9_DeleteNotFound ==
    (last.op = "delete" /\ ~Resolves(last.pre, last.path))
        => (last.res = "Not found" /\ store = last.pre)

C9_Witness ==
    /\ last.op = "delete"
    /\ LeafAtProperPrefix(last.pre, last.path)
    /\ HasEmptyBranch(last.pre)
    /\ last.res = "Not found"

(***************************************************************************)
(* C10: on a tree with no empty Branch, delete of a path that resolves     *)
(* succeeds; the path no longer resolves, the tree still has no empty      *)
(* Branch, and an ancestor on the path stays exactly when a Leaf that is   *)
(* not below the deleted path remains below it.                            *)
(***************************************************************************)
C10_DeletePrunes ==
    (/\ last.op = "delete"
     /\ ~HasEmptyBranch(last.pre)
     /\ Resolves(last.pre, last.path))
        => /\ last.res = "Ok"
           /\ ~Resolves(store, last.path)
           /\ ~HasEmptyBranch(store)
           /\ \A q \in ProperPrefixes(last.path) :
                  Resolves(store, q) <=> KeepsContent(last.pre, q, last.path)

C10_Witness ==
    /\ last.op = "delete"
    /\ Len(last.path) = 3
    /\ ~HasEmptyBranch(last.pre)
    /\ Resolves(last.pre, last.path)
    /\ last.res = "Ok"
    /\ store = EmptyMap

(***************************************************************************)
(* C11: starting from the empty store, after any sequence of create,       *)
(* update and delete calls with arbitrary paths and entries, no Branch     *)
(* anywhere in the tree has zero entries.                                  *)
(***************************************************************************)
C11_NoEmptyBranch == ~HasEmptyBranch(store)

(***************************************************************************)
(* C12 as stated: the presence of a path p changes only from absent to     *)
(* present by a successful create(p), and from present to absent by a      *)
(* successful delete(p) or update(p, empty Branch); create on a present    *)
(* path and update / delete on an absent path return errors.               *)
(***************************************************************************)
IsCall == last.op \in {"create", "ops_create", "read", "update", "delete"}

Appears(p) == ~Resolves(last.pre, p) /\ Resolves(store, p)

Vanishes(p) == Resolves(last.pre, p) /\ ~Resolves(store, p)

IsRemoval ==
    last.op = "delete" \/ (last.op = "update" /\ IsEmptyBranch(last.secret))

IsReplacement == last.op = "update" /\ ~IsEmptyBranch(last.secret)

ErrorsNotNoOps ==
    /\ (IsCreate /\ Resolves(last.pre, last.path))
           => last.res \in {"Conflict", "Empty secret"}
    /\ (last.op \in {"update", "delete"} /\ ~Resolves(last.pre, last.path))
           => last.res = "Not found"

C12_PresenceAsStated ==
    IsCall =>
        /\ \A p \in AllPaths :
               /\ Appears(p) => (IsCreate /\ last.res = "Ok" /\ last.path = p)
               /\ Vanishes(p) => (IsRemoval /\ last.res = "Ok" /\ last.path = p)
        /\ ErrorsNotNoOps

(***************************************************************************)
(* C12 amended: the presence of a path p changes only through a successful *)
(* operation on a path q that is a prefix or an extension of p: absent to  *)
(* present by create(q), or by update(q, non-empty entry) with q a proper  *)
(* prefix of p; present to absent by delete(q) or update(q, empty Branch), *)
(* or by update(q, non-empty entry) with q a proper prefix of p.  create   *)
(* on a present path and update / delete on an absent path return errors.  *)
(***************************************************************************)
Comparable(p, q) == IsPrefix(p, q) \/ IsPrefix(q, p)

Below(q, p) == IsPrefix(q, p) /\ q # p

RECURSIVE PathsOf(_)
PathsOf(m) ==
    UNION {{<<k>>} \cup (IF m[k].kind = "Branch"
                         THEN {<<k>> \o q : q \in PathsOf(m[k].map)}
                         ELSE {}) : k \in DOMAIN m}

C12_PresenceTransitions ==
    IsCall =>
        /\ \A p \in PathsOf(store) \cup PathsOf(last.pre) :
               /\ Appears(p) =>
                      /\ last.res = "Ok"
                      /\ \/ IsCreate /\ Comparable(last.path, p)
                         \/ IsReplacement /\ Below(last.path, p)
               /\ Vanishes(p) =>
                      /\ last.res = "Ok"
                      /\ \/ IsRemoval /\ Comparable(last.path, p)
                         \/ IsReplacement /\ Below(last.path, p)
        /\ ErrorsNotNoOps

C12_Witness ==
    /\ last.op = "delete"
    /\ last.res = "Ok"
    /\ Len(last.path) >= 2
    /\ Vanishes(Front(last.path))
    /\ store # EmptyMap

(***************************************************************************)
(* Command-line entry point of src/main.rs on the single-level store of    *)
(* lib/store, whose Entry::Nested holds a further store.  Entry::String    *)
(* and Entry::Binary are the Leaf nodes and Entry::Nested the Branch nodes *)
(* of the representation above.                                            *)
(***************************************************************************)
lib_create(m, name, entry) ==
    IF name \in DOMAIN m THEN Result(m, "Secret already exists", None)
    ELSE Result(map_insert(m, name, entry), "Ok", None)

lib_delete(m, name) ==
    IF name \in DOMAIN m THEN Result(map_remove(m, name), "Ok", Some(m[name]))
    ELSE Result(m, "Secret not found", None)

RECURSIVE navigate(_, _)
navigate(root, path) ==
    IF path = <<>> THEN [root |-> root, at |-> <<>>, rest |-> path]
    ELSE LET entry == map_get(root, Head(path))
         IN  IF entry # None /\ entry[1].kind = "Branch"
             THEN LET inner == navigate(entry[1].map, Tail(path))
                  IN  [root |-> inner.root, at |-> <<Head(path)>> \o inner.at,
                       rest |-> inner.rest]
             ELSE [root |-> root, at |-> <<>>, rest |-> path]

RECURSIVE write_back(_, _, _)
write_back(m, at, inner) ==
    IF at = <<>> THEN inner
    ELSE map_insert(m, Head(at),
                    Branch(write_back(m[Head(at)].map, Tail(at), inner)))

main_delete(m, path) ==
    IF path = <<>> THEN Result(m, "panic", None)
    ELSE LET nav == navigate(m, Front(path))
         IN  IF nav.rest = <<>>
             THEN LET deleted == lib_delete(nav.root, path[Len(path)])
                  IN  IF deleted.res # "Ok" THEN Result(m, "panic", None)
                      ELSE Result(write_back(m, nav.at, deleted.store), "Ok",
                                  deleted.out)
             ELSE Result(m, "not found", None)

RECURSIVE LibStores(_)
LibStores(depth) ==
    IF depth = 0 THEN {EmptyMap}
    ELSE {EmptyMap} \cup
         {Single(k, n) : k \in Keys,
                         n \in Leaves \cup {Branch(inner) : inner \in LibStores(depth - 1)}}

LibEntries == Leaves \cup {Branch(inner) : inner \in LibStores(MaxPathLen - 1)}

LibCreate ==
    /\ last.op = "new"
    /\ \E name \in Keys, entry \in LibEntries :
           Apply("lib_create", <<name>>, entry, lib_create(store, name, entry))

MainDelete ==
    /\ last.op = "new"
    /\ \E path \in Paths \ {<<>>} :
           Apply("main_delete", path, Leaf(""), main_delete(store, path))

NextMain == LibCreate \/ MainDelete \/ Return

SpecMain == Init /\ [][NextMain]_vars

(***************************************************************************)
(* C13: the Delete action of the command-line entry point, given a         *)
(* non-empty path that does not resolve (final segment absent from the     *)
(* store reached by the preceding segments, or preceding segments that do  *)
(* not all resolve to nested stores), reports not-found and never panics.  *)
(***************************************************************************)
C13_MainDeleteNotFound ==
    (/\ last.op = "main_delete"
     /\ Len(last.path) >= 1
     /\ ~Resolves(last.pre, last.path))
        => (last.res = "not found" /\ store = last.pre)

(***************************************************************************)
(* Crypter: serialize, compress, AEAD-encrypt, and back.  A byte is either *)
(* a raw byte (val names its value) or byte number pos of the AES-GCM      *)
(* output (ciphertext and tag) for a key, a nonce and a content.  The      *)
(* primitives of the external crates are taken at their contract: SHA-256  *)
(* is injective on the passphrases, AES-GCM opens exactly what was sealed  *)
(* under the same key and nonce (a key stands for the passphrase whose     *)
(* digest bytes it was built from), inflate accepts exactly deflate output *)
(* and bincode decodes exactly bincode output.  A content is the payload   *)
(* with the encodings applied to it, outermost first.                      *)
(***************************************************************************)
NonceLen == 12

DigestLen == 32

SealedLen == 2

Passphrases == {"", "p"}

Payloads == EntryMaps

Compression == TRUE

NoText == [layers |-> <<>>, payload |-> EmptyMap]

RawByte(val) == [val |-> val, seal |-> None]

SealedByte(key, nonce, text, pos) ==
    [val |-> <<"aead", "", pos>>,
     seal |-> Some([key |-> key, nonce |-> nonce, text |-> text])]

sha256(pass) == [i \in 1..DigestLen |-> RawByte(<<"sha256", pass, i>>)]

Aes256Gcm_new(secret) == [key |-> secret[1].val[2], len |-> Len(secret)]

fill_bytes(v) == [i \in 1..NonceLen |-> RawByte(<<"rand", "", v>>)]

Nonces == {fill_bytes(v) : v \in 0..1}

bincode_serialize(payload) == [layers |-> <<"bincode">>, payload |-> payload]

bincode_deserialize(text) ==
    IF text.layers = <<"bincode">> THEN [res |-> "Ok", out |-> Some(text.payload)]
    ELSE [res |-> "Serde", out |-> None]

compress_to_vec(text) ==
    [layers |-> <<"deflate">> \o text.layers, payload |-> text.payload]

decompress_to_vec(text) ==
    IF text.layers # <<>> /\ Head(text.layers) = "deflate"
    THEN [res |-> "Ok", out |-> [layers |-> Tail(text.layers), payload |-> text.payload]]
    ELSE [res |-> "Inflation", out |-> NoText]

aead_encrypt(key, nonce, text) ==
    [pos \in 1..SealedLen |-> SealedByte(key, nonce, text, pos)]

aead_decrypt_any_nonce(key, nonce, data) ==
    IF /\ Len(data) = SealedLen
       /\ data[1].seal # None
       /\ data = aead_encrypt(key, data[1].seal[1].nonce, data[1].seal[1].text)
    THEN [res |-> "Ok", out |-> data[1].seal[1].text]
    ELSE [res |-> "Crypto", out |-> NoText]

aead_decrypt(key, nonce, data) ==
    IF /\ Len(data) = SealedLen
       /\ data[1].seal # None
       /\ data = aead_encrypt(key, nonce, data[1].seal[1].text)
    THEN [res |-> "Ok", out |-> data[1].seal[1].text]
    ELSE [res |-> "Crypto", out |-> NoText]

CryptResult(res, out, bytes) == [res |-> res, out |-> out, bytes |-> bytes]

\* lib/crypter: the key is the passphrase digest, the nonce is drawn per call
crypter_new(passphrase) == Aes256Gcm_new(sha256(passphrase))

crypter_encrypt_nonce_last(passphrase, payload, nonce) ==
    LET serialized == bincode_serialize(payload)
        binary == IF Compression THEN compress_to_vec(serialized) ELSE serialized
        data == aead_encrypt(crypter_new(passphrase), nonce, binary)
    IN  CryptResult("Ok", None, data \o nonce)

crypter_encrypt(passphrase, payload, nonce) ==
    LET serialized == bincode_serialize(payload)
        binary == IF Compression THEN compress_to_vec(serialized) ELSE serialized
        data == aead_encrypt(crypter_new(passphrase), nonce, binary)
    IN  CryptResult("Ok", None, nonce \o data)

crypter_decrypt_split_early(passphrase, payload) ==
    IF Len(payload) < NonceLen THEN CryptResult("panic", None, <<>>)
    ELSE LET nonce == SubSeq(payload, 1, NonceLen)
             data == SubSeq(payload, NonceLen, Len(payload))
             decrypted == aead_decrypt(crypter_new(passphrase), nonce, data)
             inflated == IF Compression /\ decrypted.res = "Ok"
                         THEN decompress_to_vec(decrypted.out) ELSE decrypted
         IN  IF decrypted.res # "Ok" THEN CryptResult("Crypto", None, <<>>)
             ELSE IF inflated.res # "Ok" THEN CryptResult("Inflation", None, <<>>)
             ELSE LET value == bincode_deserialize(inflated.out)
                  IN  CryptResult(value.res, value.out, <<>>)

crypter_decrypt_deserialize_first(passphrase, payload) ==
    IF Len(payload) < NonceLen THEN CryptResult("panic", None, <<>>)
    ELSE LET nonce == SubSeq(payload, 1, NonceLen)
             data == SubSeq(payload, NonceLen + 1, Len(payload))
             decrypted == aead_decrypt(crypter_new(passphrase), nonce, data)
         IN  IF decrypted.res # "Ok" THEN CryptResult("Crypto", None, <<>>)
             ELSE LET value == bincode_deserialize(decrypted.out)
                  IN  CryptResult(value.res, value.out, <<>>)

crypter_decrypt(passphrase, payload) ==
    IF Len(payload) < NonceLen THEN CryptResult("panic", None, <<>>)
    ELSE LET nonce == SubSeq(payload, 1, NonceLen)
             data == SubSeq(payload, NonceLen + 1, Len(payload))
             decrypted == aead_decrypt(crypter_new(passphrase), nonce, data)
             inflated == IF Compression /\ decrypted.res = "Ok"
                         THEN decompress_to_vec(decrypted.out) ELSE decrypted
         IN  IF decrypted.res # "Ok" THEN CryptResult("Crypto", None, <<>>)
             ELSE IF inflated.res # "Ok" THEN CryptResult("Inflation", None, <<>>)
             ELSE LET value == bincode_deserialize(inflated.out)
                  IN  CryptResult(value.res, value.out, <<>>)

\* src/crypter.rs: key and nonce are both taken from the passphrase digest
src_crypter_new(pass) ==
    LET secret == sha256(pass)
    IN  [cipher |-> Aes256Gcm_new(SubSeq(secret, 1, DigestLen)), nonce |-> SubSeq(secret, 1, NonceLen)]

src_crypter_encrypt(pass, payload) ==
    LET self == src_crypter_new(pass)
        binary == compress_to_vec(bincode_serialize(payload))
    IN  CryptResult("Ok", None, aead_encrypt(self.cipher, self.nonce, binary))

src_crypter_decrypt(pass, payload) ==
    LET self == src_crypter_new(pass)
        decrypted == aead_decrypt(self.cipher, self.nonce, payload)
        inflated == IF decrypted.res = "Ok"
                    THEN decompress_to_vec(decrypted.out) ELSE decrypted
    IN  IF decrypted.res # "Ok" THEN CryptResult("Crypto", None, <<>>)
        ELSE IF inflated.res # "Ok" THEN CryptResult("Inflation", None, <<>>)
        ELSE LET value == bincode_deserialize(inflated.out)
             IN  CryptResult(value.res, value.out, <<>>)

(***************************************************************************)
(* Inputs of the Crypter: the blobs it produced, the same blobs with one   *)
(* byte changed, blobs sealed under a passphrase around a content that no  *)
(* encrypt call produces, and blobs cut short of the nonce.                *)
(***************************************************************************)
ForeignTexts ==
    {[layers |-> <<"raw">>, payload |-> EmptyMap],
     [layers |-> <<"deflate", "raw">>, payload |-> EmptyMap],
     bincode_serialize(EmptyMap)}

CrypterEncrypted ==
    {crypter_encrypt(P, T, n).bytes : P \in Passphrases, T \in Payloads, n \in Nonces}

SrcCrypterEncrypted ==
    {src_crypter_encrypt(P, T).bytes : P \in Passphrases, T \in Payloads}

AltBytes ==
    {b[i] : b \in CrypterEncrypted, i \in 1..(NonceLen + SealedLen)}
        \cup {b[i] : b \in SrcCrypterEncrypted, i \in 1..SealedLen}

TamperedAt(blob, i) == {[blob EXCEPT ![i] = byte] : byte \in AltBytes \ {blob[i]}}

CrypterBlobs ==
    CrypterEncrypted
        \cup UNION {TamperedAt(b, i) : b \in CrypterEncrypted, i \in 1..(NonceLen + SealedLen)}
        \cup {n \o aead_encrypt(crypter_new(P), n, text) :
                  P \in Passphrases, n \in Nonces, text \in ForeignTexts}
        \cup {SubSeq(n, 1, k) : n \in Nonces, k \in {0, NonceLen - 1}}

SrcCrypterBlobs ==
    SrcCrypterEncrypted
        \cup UNION {TamperedAt(b, i) : b \in SrcCrypterEncrypted, i \in 1..SealedLen}
        \cup {aead_encrypt(src_crypter_new(P).cipher, src_crypter_new(P).nonce, text) :
                  P \in Passphrases, text \in ForeignTexts}
        \cup {<<>>}

CryptCall(op, pass, payload, blob, r) ==
    /\ last.op = "new"
    /\ store' = store
    /\ last' = [op |-> op, pass |-> pass, payload |-> payload, blob |-> blob,
                res |-> r.res, out |-> r.out, bytes |-> r.bytes]

CrypterEncrypt ==
    /\ last.op = "new"
    /\ \E P \in Passphrases, T \in Payloads, n \in Nonces :
           CryptCall("encrypt", P, T, <<>>, crypter_encrypt(P, T, n))

CrypterDecrypt ==
    /\ last.op = "new"
    /\ \E P \in Passphrases, blob \in CrypterBlobs :
           CryptCall("decrypt", P, EmptyMap, blob, crypter_decrypt(P, blob))

SrcCrypterEncrypt ==
    /\ last.op = "new"
    /\ \E P \in Passphrases, T \in Payloads :
           CryptCall("src_encrypt", P, T, <<>>, src_crypter_encrypt(P, T))

SrcCrypterDecrypt ==
    /\ last.op = "new"
    /\ \E P \in Passphrases, blob \in SrcCrypterBlobs :
           CryptCall("src_decrypt", P, EmptyMap, blob, src_crypter_decrypt(P, blob))

NextCrypt ==
    \/ CrypterEncrypt
    \/ CrypterDecrypt
    \/ SrcCrypterEncrypt
    \/ SrcCrypterDecrypt
    \/ Return

SpecCrypt == Init /\ [][NextCrypt]_vars

(***************************************************************************)
(* C14: in both Crypter variants, decrypting what encrypt returned for a   *)
(* payload T under passphrase P, with the same P, succeeds and returns T.  *)
(***************************************************************************)
C14_RoundTrip ==
    \A P \in Passphrases, T \in Payloads :
        /\ (/\ last.op = "decrypt"
            /\ last.pass = P
            /\ \E n \in Nonces : last.blob = crypter_encrypt(P, T, n).bytes)
               => (last.res = "Ok" /\ last.out = Some(T))
        /\ (/\ last.op = "src_decrypt"
            /\ last.pass = P
            /\ last.blob = src_crypter_encrypt(P, T).bytes)
               => (last.res = "Ok" /\ last.out = Some(T))

C14_Witness ==
    /\ last.op = "decrypt"
    /\ last.pass = "p"
    /\ last.blob \in CrypterEncrypted
    /\ last.res = "Ok"
    /\ last.out = Some(Single("a", Branch(EmptyMap)))

(***************************************************************************)
(* C15: decrypting, with the passphrase P, what encrypt returned for T     *)
(* under P after the byte at any one position (the nonce bytes included)   *)
(* was changed fails with the Crypto error, so it never succeeds with a    *)
(* payload other than T.                                                   *)
(***************************************************************************)
ChangedAt(blob, original, i) ==
    /\ Len(blob) = Len(original)
    /\ i \in 1..Len(original)
    /\ blob[i] # original[i]
    /\ blob = [original EXCEPT ![i] = blob[i]]

C15_TamperDetected ==
    \A P \in Passphrases, T \in Payloads :
        /\ (/\ last.op = "decrypt"
            /\ last.pass = P
            /\ \E n \in Nonces :
                   LET original == crypter_encrypt(P, T, n).bytes
                   IN  \E i \in 1..(NonceLen + SealedLen) :
                           ChangedAt(last.blob, original, i))
               => (last.res = "Crypto" /\ last.out = None)
        /\ (/\ last.op = "src_decrypt"
            /\ last.pass = P
            /\ LET original == src_crypter_encrypt(P, T).bytes
               IN  \E i \in 1..SealedLen : ChangedAt(last.blob, original, i))
               => (last.res = "Crypto" /\ last.out = None)

C15_Witness ==
    /\ last.op = "decrypt"
    /\ last.res = "Crypto"
    /\ \E T \in Payloads, n \in Nonces, i \in 1..NonceLen :
           ChangedAt(last.blob, crypter_encrypt(last.pass, T, n).bytes, i)

(***************************************************************************)
(* C16: decrypt reports the first failing stage in the order AEAD-decrypt, *)
(* inflate, deserialize: a blob that is not authentic under the key and    *)
(* nonce in use (in particular one encrypted under another passphrase)     *)
(* gives Crypto, authentic content that is not deflate output gives        *)
(* Inflation, authentic deflate output of something other than a           *)
(* serialized payload gives Serde, and anything else succeeds.             *)
(***************************************************************************)
SealedTexts ==
    {compress_to_vec(bincode_serialize(T)) : T \in Payloads} \cup ForeignTexts

StageOutcome(key, nonce, data) ==
    IF \A text \in SealedTexts : data # aead_encrypt(key, nonce, text)
    THEN "Crypto"
    ELSE LET text == CHOOSE t \in SealedTexts : data = aead_encrypt(key, nonce, t)
         IN  IF Head(text.layers) # "deflate" THEN "Inflation"
             ELSE IF Tail(text.layers) # <<"bincode">> THEN "Serde"
             ELSE "Ok"

C16_StageErrors ==
    /\ (last.op = "decrypt" /\ last.res # "panic")
           => /\ last.res = StageOutcome(crypter_new(last.pass),
                                         SubSeq(last.blob, 1, NonceLen),
                                         SubSeq(last.blob, NonceLen + 1, Len(last.blob)))
              /\ \A P \in Passphrases \ {last.pass} :
                     last.blob \in {crypter_encrypt(P, T, n).bytes :
                                        T \in Payloads, n \in Nonces}
                         => last.res = "Crypto"
    /\ last.op = "src_decrypt"
           => /\ last.res = StageOutcome(src_crypter_new(last.pass).cipher,
                                         src_crypter_new(last.pass).nonce,
                                         last.blob)
              /\ \A P \in Passphrases \ {last.pass} :
                     last.blob \in {src_crypter_encrypt(P, T).bytes : T \in Payloads}
                         => last.res = "Crypto"

C16_Witness ==
    /\ last.op = "decrypt"
    /\ last.res = "Serde"
    /\ Len(last.blob) = NonceLen + SealedLen

(***************************************************************************)
(* The path navigator called directly (lib/nested_map), on trees built     *)
(* with the map's own insert.  A returned reference is recorded as the     *)
(* node it refers to.                                                      *)
(***************************************************************************)
Node_get_mut(n, k) == IF n.kind = "Branch" THEN map_get(n.map, k) ELSE None

RECURSIVE get_mut_from_node(_, _)
get_mut_from_node(root, rest) ==
    IF rest = <<>> THEN Some(root)
    ELSE LET next == Node_get_mut(root, Head(rest))
         IN  IF next = None THEN None ELSE get_mut_from_node(next[1], Tail(rest))

get_mut_from_iter_first(m, path) ==
    IF path = <<>> THEN None ELSE map_get(m, Head(path))

get_mut_from_iter(m, path) ==
    IF path = <<>> THEN None
    ELSE LET first == map_get(m, Head(path))
         IN  IF first = None THEN None ELSE get_mut_from_node(first[1], Tail(path))

RemoveEntryLast(m, k) ==
    [map |-> map_remove(m, k),
     ret |-> IF k \in DOMAIN m THEN Some(<<k, m[k]>>) ELSE None]

RECURSIVE remove_entry_from_iter_keeps(_, _)
remove_entry_from_iter_keeps(m, path) ==
    IF path = <<>> THEN [map |-> m, ret |-> None]
    ELSE IF Len(path) = 1
    THEN [map |-> m, ret |-> RemoveEntryLast(m, Head(path)).ret]
    ELSE LET next == map_get(m, Head(path))
         IN  IF next = None THEN [map |-> m, ret |-> None]
             ELSE IF next[1].kind # "Branch" THEN [map |-> m, ret |-> None]
             ELSE LET r == remove_entry_from_iter_keeps(next[1].map, Tail(path))
                  IN  [map |-> m, ret |-> r.ret]

RECURSIVE remove_entry_from_iter(_, _)
remove_entry_from_iter(m, path) ==
    IF path = <<>> THEN [map |-> m, ret |-> None]
    ELSE IF Len(path) = 1 THEN RemoveEntryLast(m, Head(path))
    ELSE LET next == map_get(m, Head(path))
         IN  IF next = None THEN [map |-> m, ret |-> None]
             ELSE IF next[1].kind # "Branch" THEN [map |-> m, ret |-> None]
             ELSE LET r == remove_entry_from_iter(next[1].map, Tail(path))
                  IN  [map |-> map_insert(m, Head(path), Branch(r.map)),
                       ret |-> r.ret]

OptionResult(m, out) == Result(m, IF out = None THEN "None" ELSE "Some", out)

MapInsert ==
    /\ last.op = "new"
    /\ \E k \in Keys, node \in LibEntries :
           Apply("insert", <<k>>, node,
                 OptionResult(map_insert(store, k, node), map_get(store, k)))

GetFrom ==
    /\ last.op = "new"
    /\ \E path \in Paths :
           Apply("get_from", path, Leaf(""),
                 OptionResult(store, get_from_iter(store, path)))

GetMutFrom ==
    /\ last.op = "new"
    /\ \E path \in Paths :
           Apply("get_mut_from", path, Leaf(""),
                 OptionResult(store, get_mut_from_iter(store, path)))

ContainsPath ==
    /\ last.op = "new"
    /\ \E path \in Paths :
           Apply("contains_path", path, Leaf(""),
                 Result(store,
                        IF contains_path_iter(store, path) THEN "true" ELSE "false",
                        None))

RemoveFrom ==
    /\ last.op = "new"
    /\ \E path \in Paths :
           LET r == remove_from_iter(store, path)
           IN  Apply("remove_from", path, Leaf(""), OptionResult(r.map, r.ret))

RemoveEntryFrom ==
    /\ last.op = "new"
    /\ \E path \in Paths :
           LET r == remove_entry_from_iter(store, path)
           IN  Apply("remove_entry_from", path, Leaf(""), OptionResult(r.map, r.ret))

NextNav ==
    \/ MapInsert
    \/ GetFrom
    \/ GetMutFrom
    \/ ContainsPath
    \/ RemoveFrom
    \/ RemoveEntryFrom
    \/ Return

SpecNav == Init /\ [][NextNav]_vars

(***************************************************************************)
(* C17: for a non-empty path, get_from returns the node found by looking   *)
(* up the first segment at the root and each later segment in the Branch   *)
(* reached so far; it returns none when a segment is missing or a node     *)
(* reached before the last segment is a Leaf; the tree is unchanged.       *)
(***************************************************************************)
C17_GetFrom ==
    (last.op = "get_from" /\ Len(last.path) >= 1)
        => /\ last.out = NodeAt(last.pre, last.path)
           /\ (\E q \in ProperPrefixes(last.path) :
                   ~Resolves(last.pre, q) \/ IsLeafAt(last.pre, q))
                  => last.out = None
           /\ ~Resolves(last.pre, last.path) => last.out = None
           /\ store = last.pre

C17_Witness ==
    /\ last.op = "get_from"
    /\ Len(last.path) = MaxPathLen
    /\ last.out # None
    /\ last.out[1].kind = "Leaf"

(***************************************************************************)
(* C18: on the empty path get_from, get_mut_from, contains_path,           *)
(* remove_from and remove_entry_from fail (none / false) on every tree and *)
(* leave the tree unchanged.                                               *)
(***************************************************************************)
NavOps == {"get_from", "get_mut_from", "contains_path", "remove_from", "remove_entry_from"}

C18_EmptyPathFails ==
    (last.op \in NavOps /\ last.path = <<>>)
        => /\ last.res \in {"None", "false"}
           /\ last.out = None
           /\ store = last.pre

C18_Witness ==
    /\ last.op = "remove_entry_from"
    /\ last.path = <<>>
    /\ last.res = "None"
    /\ \E k \in Keys : IsBranchAt(store, <<k>>)

(***************************************************************************)
(* C19: remove_from removes the final segment's entry from its parent map  *)
(* and returns the removed node; every other path resolves as before, so   *)
(* an ancestor left with zero entries stays; when the path does not        *)
(* resolve it returns none and the tree is unchanged.                      *)
(***************************************************************************)
OnlyRemoved(pre, post, path) ==
    \A q \in AllPaths :
        /\ Resolves(post, q) <=> (Resolves(pre, q) /\ ~IsPrefix(path, q))
        /\ Resolves(post, q)
               => /\ NodeAt(post, q)[1].kind = NodeAt(pre, q)[1].kind
                  /\ NodeAt(post, q)[1].val = NodeAt(pre, q)[1].val

C19_RemoveFrom ==
    last.op = "remove_from"
        => IF Resolves(last.pre, last.path)
           THEN /\ last.out = NodeAt(last.pre, last.path)
                /\ OnlyRemoved(last.pre, store, last.path)
           ELSE last.out = None /\ store = last.pre

C19_Witness ==
    /\ last.op = "remove_from"
    /\ last.res = "Some"
    /\ Len(last.path) >= 2
    /\ IsBranchAt(store, Front(last.path))
    /\ IsEmptyBranch(NodeAt(store, Front(last.path))[1])

(***************************************************************************)
(* Path arguments (src/args.rs).  A string is a sequence of characters.    *)
(***************************************************************************)
MaxStrLen == 5

Chars == {"a", ".", " "}

Strings == UNION {[1..n -> Chars] : n \in 0..MaxStrLen}

is_whitespace(c) == c = " "

RECURSIVE split(_, _)
split(string, sep) ==
    IF \A i \in 1..Len(string) : string[i] # sep THEN <<string>>
    ELSE LET at == CHOOSE i \in 1..Len(string) :
                       string[i] = sep /\ \A j \in 1..(i - 1) : string[j] # sep
         IN  <<SubSeq(string, 1, at - 1)>>
                 \o split(SubSeq(string, at + 1, Len(string)), sep)

RECURSIVE trim_start(_)
trim_start(s) ==
    IF s # <<>> /\ is_whitespace(Head(s)) THEN trim_start(Tail(s)) ELSE s

RECURSIVE trim_end(_)
trim_end(s) ==
    IF s # <<>> /\ is_whitespace(s[Len(s)])
    THEN trim_end(SubSeq(s, 1, Len(s) - 1)) ELSE s

trim(s) == trim_end(trim_start(s))

RECURSIVE filter_map_trimmed(_)
filter_map_trimmed(pieces) ==
    IF pieces = <<>> THEN <<>>
    ELSE LET trimmed == trim(Head(pieces))
         IN  (IF trimmed = <<>> THEN <<>> ELSE <<trimmed>>)
                 \o filter_map_trimmed(Tail(pieces))

RECURSIVE map_trimmed(_)
map_trimmed(pieces) ==
    IF pieces = <<>> THEN <<>>
    ELSE <<trim(Head(pieces))>> \o map_trimmed(Tail(pieces))

from_str_keeps_empty(string) ==
    LET entries == map_trimmed(split(string, "."))
    IN  IF entries = <<>> THEN [res |-> "Empty path", out |-> <<>>]
        ELSE [res |-> "Ok", out |-> entries]

from_str(string) ==
    LET entries == filter_map_trimmed(split(string, "."))
    IN  IF entries = <<>> THEN [res |-> "Empty path", out |-> <<>>]
        ELSE [res |-> "Ok", out |-> entries]

FromStr ==
    /\ last.op = "new"
    /\ \E string \in Strings :
           /\ store' = store
           /\ last' = [op |-> "from_str", string |-> string,
                       res |-> from_str(string).res, out |-> from_str(string).out]

(***************************************************************************)
(* Secret arguments (src/args.rs parse_entry).  The argument is given by   *)
(* the first character of its first whitespace-separated token (none when  *)
(* it is empty or blank) and by what serde_json makes of it: a node, with  *)
(* JSON objects as Branches, or nothing when the text is not valid JSON.   *)
(***************************************************************************)
MaxJsonDepth == 2

RECURSIVE JsonMaps(_)
JsonMaps(depth) ==
    IF depth = 0 THEN {EmptyMap}
    ELSE LET nodes == {Leaf("v")} \cup {Branch(m) : m \in JsonMaps(depth - 1)}
         IN  UNION {[ks -> nodes] : ks \in SUBSET Keys}

SecretArgs ==
    {[lead |-> None, json |-> None]}
        \cup {[lead |-> Some("a"), json |-> None]}
        \cup {[lead |-> Some("{"), json |-> j] :
                  j \in {None} \cup {Some(Branch(m)) : m \in JsonMaps(MaxJsonDepth)}}
        \cup {[lead |-> Some(c), json |-> j] :
                  c \in {"[", "\""}, j \in {None, Some(Leaf("v"))}}

RECURSIVE remove_empties_shallow(_)
remove_empties_shallow(node) ==
    IF node.kind = "Branch"
    THEN LET kept == {k \in DOMAIN node.map : node.map[k] # Branch(EmptyMap)}
             branch == [k \in kept |-> node.map[k]]
         IN  [node |-> Branch(branch), ret |-> map_is_empty(branch)]
    ELSE [node |-> node, ret |-> FALSE]

RECURSIVE remove_empties(_)
remove_empties(node) ==
    IF node.kind = "Branch"
    THEN LET kept == {k \in DOMAIN node.map : ~remove_empties(node.map[k]).ret}
             branch == [k \in kept |-> remove_empties(node.map[k]).node]
         IN  [node |-> Branch(branch), ret |-> map_is_empty(branch)]
    ELSE [node |-> node, ret |-> FALSE]

parse_entry(string) ==
    IF string.lead = None THEN [res |-> "Empty secret", out |-> None]
    ELSE IF string.lead[1] \in {"{", "[", "\""}
    THEN IF string.json = None THEN [res |-> "JSON error", out |-> None]
         ELSE [res |-> "Ok", out |-> Some(remove_empties(string.json[1]).node)]
    ELSE [res |-> "Ok", out |-> Some(Leaf("v"))]

ParseEntry ==
    /\ last.op = "new"
    /\ \E string \in SecretArgs :
           /\ store' = store
           /\ last' = [op |-> "parse_entry", string |-> string,
                       res |-> parse_entry(string).res,
                       out |-> parse_entry(string).out]

NextParse == FromStr \/ ParseEntry \/ Return

SpecParse == Init /\ [][NextParse]_vars

(***************************************************************************)
(* C20: parsing a dotted path string yields, in order, the pieces between  *)
(* the dots, each without its leading and trailing whitespace, leaving out *)
(* the pieces that are empty after trimming; it fails with 'Empty path'    *)
(* exactly when no piece remains; a parsed Path has at least one segment   *)
(* and every segment is non-empty without leading or trailing whitespace.  *)
(***************************************************************************)
DotsOf(string) == {i \in 1..Len(string) : string[i] = "."}

PieceBounds(string, k) ==
    LET cuts == DotsOf(string) \cup {0, Len(string) + 1}
        from == CHOOSE i \in cuts : Cardinality({j \in cuts : j < i}) = k - 1
        to == CHOOSE i \in cuts : Cardinality({j \in cuts : j < i}) = k
    IN  [from |-> from + 1, to |-> to - 1]

InkOf(string, k) ==
    {i \in PieceBounds(string, k).from..PieceBounds(string, k).to : string[i] # " "}

Lowest(S) == CHOOSE i \in S : \A j \in S : i <= j

Highest(S) == CHOOSE i \in S : \A j \in S : j <= i

KeptPieces(string) ==
    {k \in 1..(Cardinality(DotsOf(string)) + 1) : InkOf(string, k) # {}}

C20_PathFromStr ==
    last.op = "from_str"
        => LET kept == KeptPieces(last.string)
           IN  /\ last.res = "Empty path" <=> kept = {}
               /\ last.res = "Ok" <=> kept # {}
               /\ last.res = "Ok" => Len(last.out) >= 1
               /\ Len(last.out) = Cardinality(kept)
               /\ \A n \in 1..Len(last.out) :
                      LET k == CHOOSE x \in kept :
                                   Cardinality({y \in kept : y < x}) = n - 1
                          seg == last.out[n]
                      IN  /\ seg = SubSeq(last.string, Lowest(InkOf(last.string, k)),
                                          Highest(InkOf(last.string, k)))
                          /\ seg # <<>>
                          /\ seg[1] # " "
                          /\ seg[Len(seg)] # " "
                          /\ \A i \in 1..Len(seg) : seg[i] # "."

C20_Witness ==
    /\ last.op = "from_str"
    /\ last.string = <<" ", "a", ".", ".", "a">>
    /\ last.res = "Ok"
    /\ last.out = << <<"a">>, <<"a">> >>

(***************************************************************************)
(* C21: in the pruning after a successful delete(path), an ancestor of the *)
(* deleted entry is removed only when nothing is left in it: the ancestors *)
(* that stay are exactly those at or above the deepest ancestor holding an *)
(* entry off the path, and every node off the deleted path is unchanged.   *)
(***************************************************************************)
MapAt(m, q) == IF q = <<>> THEN m ELSE NodeAt(m, q)[1].map

Anchors(m, path) ==
    {q \in ProperPrefixes(path) : DOMAIN MapAt(m, q) # {path[Len(q) + 1]}}

C21_PruningStops ==
    (last.op = "delete" /\ last.res = "Ok")
        => /\ \A q \in ProperPrefixes(last.path) :
                  Resolves(store, q)
                      <=> \E a \in Anchors(last.pre, last.path) : IsPrefix(q, a)
           /\ \A p \in PathsOf(last.pre) :
                  ~Comparable(p, last.path) => NodeAt(store, p) = NodeAt(last.pre, p)
           /\ \A q \in ProperPrefixes(last.path) \cup {<<>>} :
                  (q = <<>> \/ Resolves(store, q))
                      => DOMAIN MapAt(store, q) \in
                             {DOMAIN MapAt(last.pre, q),
                              DOMAIN MapAt(last.pre, q) \ {last.path[Len(q) + 1]}}

C21_Witness ==
    /\ last.op = "delete"
    /\ last.res = "Ok"
    /\ Len(last.path) = 3
    /\ Resolves(store, SubSeq(last.path, 1, 1))
    /\ ~Resolves(store, SubSeq(last.path, 1, 2))
    /\ HasEmptyBranch(store)

(***************************************************************************)
(* C22: get_mut_from(path) is none exactly when get_from(path) is none and *)
(* otherwise refers to the node get_from(path) returns; when nothing is    *)
(* written through the reference the tree is unchanged.                    *)
(***************************************************************************)
C22_GetMutAsGet ==
    last.op = "get_mut_from"
        => /\ last.out = None <=> get_from_iter(last.pre, last.path) = None
           /\ last.out = get_from_iter(last.pre, last.path)
           /\ last.out = NodeAt(last.pre, last.path)
           /\ store = last.pre

C22_Witness ==
    /\ last.op = "get_mut_from"
    /\ Len(last.path) >= 2
    /\ last.out # None
    /\ last.out[1].kind = "Branch"
    /\ last.out[1].map # EmptyMap

(***************************************************************************)
(* C23: remove_entry_from(path) succeeds exactly when remove_from(path)    *)
(* would, leaves the tree as remove_from(path) would leave it, and returns *)
(* the last segment's key with the node remove_from would return.          *)
(***************************************************************************)
C23_RemoveEntryAsRemove ==
    last.op = "remove_entry_from"
        => LET plain == remove_from_iter(last.pre, last.path)
           IN  /\ last.out = None <=> plain.ret = None
               /\ store = plain.map
               /\ plain.ret # None
                      => last.out = Some(<<last.path[Len(last.path)], plain.ret[1]>>)

C23_Witness ==
    /\ last.op = "remove_entry_from"
    /\ Len(last.path) >= 2
    /\ last.out # None
    /\ last.out[1][1] = last.path[Len(last.path)]
    /\ store # last.pre

(***************************************************************************)
(* C24: in the random-nonce Crypter, encrypt returns the 12 nonce bytes it *)
(* drew for the call, none of them a byte of the passphrase digest,        *)
(* followed by the AES-GCM output for the packed payload under that nonce; *)
(* decrypt opens the bytes after the first 12 with the first 12 as nonce.  *)
(***************************************************************************)
C24_NoncePrefixed ==
    /\ last.op = "encrypt"
           => LET nonce == SubSeq(last.bytes, 1, NonceLen)
                  data == SubSeq(last.bytes, NonceLen + 1, Len(last.bytes))
              IN  /\ Len(last.bytes) = NonceLen + SealedLen
                  /\ nonce \in Nonces
                  /\ \A i \in 1..NonceLen :
                         /\ nonce[i].seal = None
                         /\ nonce[i].val[1] = "rand"
                         /\ nonce[i] # sha256(last.pass)[i]
                  /\ data = aead_encrypt(crypter_new(last.pass), nonce,
                                         compress_to_vec(bincode_serialize(last.payload)))
    /\ (last.op = "decrypt" /\ Len(last.blob) >= NonceLen)
           => LET nonce == SubSeq(last.blob, 1, NonceLen)
                  data == SubSeq(last.blob, NonceLen + 1, Len(last.blob))
              IN  last.res # "Crypto"
                      <=> \E text \in SealedTexts :
                              data = aead_encrypt(crypter_new(last.pass), nonce, text)

C24_Witness ==
    /\ last.op = "decrypt"
    /\ last.res = "Ok"
    /\ last.pass = ""
    /\ SubSeq(last.blob, 1, NonceLen) = fill_bytes(1)
    /\ last.out = Some(Single("a", Leaf("v")))

(***************************************************************************)
(* C28: decrypt returns a payload or one of the errors Crypto, Inflation,  *)
(* Serde for every input byte sequence, the empty one and those shorter    *)
(* than the nonce included; it never panics.                               *)
(***************************************************************************)
C28_DecryptTotal ==
    last.op \in {"decrypt", "src_decrypt"}
        => last.res \in {"Ok", "Crypto", "Inflation", "Serde"}

(***************************************************************************)
(* C29: a successful delete(path) changes nothing outside the deleted      *)
(* path: every path that resolved to a Leaf before the call and does not   *)
(* have path as a prefix resolves to the same Leaf afterwards, and no key  *)
(* is added anywhere in the tree.                                          *)
(***************************************************************************)
C29_DeleteFrame ==
    (last.op = "delete" /\ last.res = "Ok")
        => /\ \A p \in PathsOf(last.pre) :
                  (IsLeafAt(last.pre, p) /\ ~IsPrefix(last.path, p))
                      => NodeAt(store, p) = NodeAt(last.pre, p)
           /\ PathsOf(store) \subseteq PathsOf(last.pre)

C29_Witness ==
    /\ last.op = "delete"
    /\ last.res = "Ok"
    /\ Len(last.path) >= 2
    /\ \E k \in Keys :
           /\ k # last.path[Len(last.path)]
           /\ IsLeafAt(store, Front(last.path) \o <<k>>)

(***************************************************************************)
(* C25: parsing a secret given as JSON removes every Branch below the root *)
(* that is empty or becomes empty once its own empty descendants are       *)
(* removed, and nothing else: the parsed node has no empty Branch strictly *)
(* below its root and keeps every Leaf; when nothing is left the result is *)
(* an empty Branch at the root, which create rejects and update treats as  *)
(* delete.  An empty or blank argument is rejected with 'Empty secret'.    *)
(***************************************************************************)
HasLeafBelow(m, p) == \E q \in PathsOf(m) : IsPrefix(p, q) /\ IsLeafAt(m, q)

C25_ParseEntryPrunes ==
    last.op = "parse_entry"
        => /\ last.string.lead = None <=> last.res = "Empty secret"
           /\ (last.string.lead # None /\ last.string.json # None) => last.res = "Ok"
           /\ (last.res = "Ok" /\ last.string.lead = Some("{"))
                  => LET given == last.string.json[1].map
                         parsed == last.out[1]
                     IN  /\ parsed.kind = "Branch"
                         /\ \A p \in PathsOf(given) \cup PathsOf(parsed.map) :
                                /\ Resolves(parsed.map, p) <=> HasLeafBelow(given, p)
                                /\ IsLeafAt(given, p)
                                       => NodeAt(parsed.map, p) = NodeAt(given, p)
                         /\ \A p \in PathsOf(parsed.map) :
                                ~IsEmptyBranch(NodeAt(parsed.map, p)[1])
                         /\ (\A p \in PathsOf(given) : ~IsLeafAt(given, p))
                                => (IsEmptyBranch(parsed) /\ should_delete(parsed))

C25_Witness ==
    /\ last.op = "parse_entry"
    /\ last.res = "Ok"
    /\ last.string.json =
           Some(Branch([k \in Keys |->
                            IF k = "a" THEN Branch(Single("a", Branch(EmptyMap)))
                            ELSE Branch(Single("b", Leaf("v")))]))
    /\ last.out = Some(Branch(Single("b", Branch(Single("b", Leaf("v"))))))

(***************************************************************************)
(* Flattened encoding of a tree (lib/nested_map/src/serde.rs, feature      *)
(* "flatten"; Entry::Node is the Leaf and Entry::Nested the Branch).  A    *)
(* content is what a self-describing format hands over: a string, a map of *)
(* contents, or something else (null).  The leaf value type V is either    *)
(* string-like, decoding strings only, or map-like, decoding the maps      *)
(* whose values are all strings.                                           *)
(***************************************************************************)
CStr(x) == [ck |-> "str", s |-> x, m |-> EmptyMap]

CMap(m) == [ck |-> "map", s |-> "", m |-> m]

CNull == [ck |-> "null", s |-> "", m |-> EmptyMap]

StringValue(x) == [vk |-> "String", s |-> x, d |-> EmptyMap]

DictValue(d) == [vk |-> "Dict", s |-> "", d |-> d]

LeafTypes == {"String", "Dict"}

V_serialize(v) ==
    IF v.vk = "String" THEN CStr(v.s)
    ELSE CMap([k \in DOMAIN v.d |-> CStr(v.d[k])])

V_deserialize(type, content) ==
    IF type = "String"
    THEN IF content.ck = "str" THEN Some(StringValue(content.s)) ELSE None
    ELSE IF content.ck = "map" /\ \A k \in DOMAIN content.m : content.m[k].ck = "str"
         THEN Some(DictValue([k \in DOMAIN content.m |-> content.m[k].s]))
         ELSE None

RECURSIVE Entry_serialize(_)
Entry_serialize(node) ==
    IF node.kind = "Leaf" THEN V_serialize(node.val)
    ELSE CMap([k \in DOMAIN node.map |-> Entry_serialize(node.map[k])])

NestedMap_serialize(m) == Entry_serialize(Branch(m))

RECURSIVE Entry_deserialize_nested_first(_, _)
Entry_deserialize_nested_first(type, content) ==
    LET inner == [k \in DOMAIN content.m |->
                      Entry_deserialize_nested_first(type, content.m[k])]
        value == V_deserialize(type, content)
    IN  IF content.ck = "map" /\ \A k \in DOMAIN inner : inner[k] # None
        THEN Some(Branch([k \in DOMAIN inner |-> inner[k][1]]))
        ELSE IF value # None THEN Some(Leaf(value[1]))
        ELSE None

RECURSIVE Entry_deserialize(_, _)
Entry_deserialize(type, content) ==
    LET value == V_deserialize(type, content)
        inner == [k \in DOMAIN content.m |-> Entry_deserialize(type, content.m[k])]
    IN  IF value # None THEN Some(Leaf(value[1]))
        ELSE IF content.ck = "map" /\ \A k \in DOMAIN inner : inner[k] # None
        THEN Some(Branch([k \in DOMAIN inner |-> inner[k][1]]))
        ELSE None

NestedMap_deserialize(type, content) ==
    LET inner == [k \in DOMAIN content.m |-> Entry_deserialize(type, content.m[k])]
    IN  IF content.ck = "map" /\ \A k \in DOMAIN inner : inner[k] # None
        THEN Some([k \in DOMAIN inner |-> inner[k][1]])
        ELSE None

RECURSIVE Contents(_)
Contents(depth) ==
    IF depth = 0 THEN {CStr("v"), CNull}
    ELSE {CStr("v"), CNull}
             \cup {CMap(m) : m \in UNION {[ks -> Contents(depth - 1)] : ks \in SUBSET Keys}}

LeafValues(type) ==
    IF type = "String" THEN {StringValue("v")}
    ELSE {DictValue(d) : d \in UNION {[ks -> {"v"}] : ks \in SUBSET {"a"}}}

RECURSIVE Trees(_, _)
Trees(type, depth) ==
    IF depth = 0 THEN {EmptyMap}
    ELSE LET nodes == {Leaf(v) : v \in LeafValues(type)}
                          \cup {Branch(m) : m \in Trees(type, depth - 1)}
         IN  UNION {[ks -> nodes] : ks \in SUBSET Keys}

SerdeCall(op, type, given, out) ==
    /\ store' = store
    /\ last' = [op |-> op, type |-> type, given |-> given,
                res |-> IF out = None THEN "Err" ELSE "Ok", out |-> out]

EntryDeserialize ==
    /\ last.op = "new"
    /\ \E type \in LeafTypes, content \in Contents(MaxJsonDepth) :
           SerdeCall("deserialize", type, content, Entry_deserialize(type, content))

RoundTrip ==
    /\ last.op = "new"
    /\ \E type \in LeafTypes :
           \E tree \in Trees(type, MaxJsonDepth) :
               SerdeCall("round_trip", type, tree,
                         NestedMap_deserialize(type, NestedMap_serialize(tree)))

NextSerde == EntryDeserialize \/ RoundTrip \/ Return

SpecSerde == Init /\ [][NextSerde]_vars

(***************************************************************************)
(* C26: in the flattened encoding a node whose content decodes as the leaf *)
(* value type is read as a Leaf, also when it decodes as a nested map; a   *)
(* Branch is only read when the leaf decoding fails, and when both fail    *)
(* the result is an error.  Serializing and then deserializing a tree      *)
(* gives an equal tree whenever no Branch of it has an encoding that       *)
(* decodes as a leaf value.                                                *)
(***************************************************************************)
BranchReadAsLeaf(type, tree) ==
    \E p \in PathsOf(tree) :
        /\ IsBranchAt(tree, p)
        /\ V_deserialize(type, Entry_serialize(NodeAt(tree, p)[1])) # None

FsPaths == {"f", "g"}

FsFile(data) == [kind |-> "File", data |-> data, entries |-> EmptyMap]

FsDir(entries) == [kind |-> "Dir", data |-> <<>>, entries |-> entries]

Sources == {[kind |-> k, path |-> p] : k \in {"File", "Directory", "S3"}, p \in FsPaths}

\* what crypter_supplier() returns: the Crypter of the passphrase read, or none
Suppliers == {None} \cup {Some(P) : P \in Passphrases}

IoNodes == {Leaf("v")} \cup {Branch(m) : m \in EntryMaps}

IoResult(res, out, fs, calls) == [res |-> res, out |-> out, fs |-> fs, calls |-> calls]

exists(fs, path) == path \in DOMAIN fs

as_bytes(value) == IF value = "" THEN <<>> ELSE <<RawByte(<<"utf8", value, 0>>)>>

from_utf8(buffer) ==
    IF buffer = <<>> THEN Some("")
    ELSE IF Len(buffer) = 1 /\ buffer[1].seal = None /\ buffer[1].val[1] = "utf8"
         THEN Some(buffer[1].val[2])
         ELSE None

\* a Store is decoded where save had encoded a Node: a Branch's map is a Store
Store_deserialize(decoded) ==
    IF decoded.res # "Ok" THEN decoded
    ELSE IF decoded.out[1].kind = "Branch"
         THEN CryptResult("Ok", Some(decoded.out[1].map), <<>>)
         ELSE CryptResult("Serde", None, <<>>)

file_read_file(fs, path) ==
    IF exists(fs, path) /\ fs[path].kind = "File" THEN Some(fs[path].data) ELSE None

file_load_empty_passphrase(fs, path, supplied) ==
    LET data == file_read_file(fs, path)
    IN  IF data = None THEN IoResult("Reading from file", None, fs, <<"read">>)
        ELSE LET pass == IF supplied = None THEN "" ELSE supplied[1]
                 value == Store_deserialize(crypter_decrypt(pass, data[1]))
             IN  IF value.res = "panic"
                 THEN IoResult("panic", None, fs, <<"read", "supplier", "decrypt">>)
                 ELSE IF value.res # "Ok"
                 THEN IoResult("Decrypting", None, fs, <<"read", "supplier", "decrypt">>)
                 ELSE IoResult("Ok", value.out, fs, <<"read", "supplier", "decrypt">>)

file_load(fs, path, supplied) ==
    LET data == file_read_file(fs, path)
    IN  IF data = None THEN IoResult("Reading from file", None, fs, <<"read">>)
        ELSE IF supplied = None
        THEN IoResult("No crypto", None, fs, <<"read", "supplier">>)
        ELSE LET value == Store_deserialize(crypter_decrypt(supplied[1], data[1]))
             IN  IF value.res = "panic"
                 THEN IoResult("panic", None, fs, <<"read", "supplier", "decrypt">>)
                 ELSE IF value.res # "Ok"
                 THEN IoResult("Decrypting", None, fs, <<"read", "supplier", "decrypt">>)
                 ELSE IoResult("Ok", value.out, fs, <<"read", "supplier", "decrypt">>)

file_write_file(fs, data, path) ==
    IF exists(fs, path) /\ fs[path].kind = "Dir" THEN None
    ELSE Some([p \in DOMAIN fs \cup {path} |-> IF p = path THEN FsFile(data) ELSE fs[p]])

file_save_asks_first(fs, node, path, check_conflict, supplied, nonce) ==
    IF supplied = None THEN IoResult("No crypto", None, fs, <<"supplier">>)
    ELSE IF check_conflict /\ exists(fs, path)
    THEN IoResult("File exists", None, fs, <<"supplier", "exists">>)
    ELSE LET encrypted == crypter_encrypt(supplied[1], node, nonce)
             written == file_write_file(fs, encrypted.bytes, path)
         IN  IF written = None
             THEN IoResult("Writing to file", None, fs, <<"supplier", "exists", "encrypt", "write">>)
             ELSE IoResult("Ok", None, written[1], <<"supplier", "exists", "encrypt", "write">>)

file_save(fs, node, path, check_conflict, supplied, nonce) ==
    IF check_conflict /\ exists(fs, path)
    THEN IoResult("File exists", None, fs, <<"exists">>)
    ELSE IF supplied = None THEN IoResult("No crypto", None, fs, <<"exists", "supplier">>)
    ELSE LET encrypted == crypter_encrypt(supplied[1], node, nonce)
             written == file_write_file(fs, encrypted.bytes, path)
         IN  IF written = None
             THEN IoResult("Writing to file", None, fs, <<"exists", "supplier", "encrypt", "write">>)
             ELSE IoResult("Ok", None, written[1], <<"exists", "supplier", "encrypt", "write">>)

directory_read_file(file) ==
    LET value == from_utf8(file.data)
    IN  IF value # None THEN Leaf(value[1]) ELSE Leaf(file.data)

RECURSIVE read_directory(_)
read_directory(dir) ==
    [key \in DOMAIN dir.entries |->
        IF dir.entries[key].kind = "Dir"
        THEN Branch(read_directory(dir.entries[key]))
        ELSE directory_read_file(dir.entries[key])]

directory_load(fs, path) ==
    IF exists(fs, path) /\ fs[path].kind = "Dir"
    THEN IoResult("Ok", Some(read_directory(fs[path])), fs, <<"read">>)
    ELSE IoResult("Reading from directory", None, fs, <<"read">>)

RECURSIVE write_node(_)
write_node(node) ==
    IF node.kind = "Leaf" THEN FsFile(as_bytes(node.val))
    ELSE FsDir([name \in DOMAIN node.map |-> write_node(node.map[name])])

directory_save(fs, node, path, check_conflict) ==
    IF exists(fs, path) /\ check_conflict
    THEN IoResult("File exists", None, fs, <<"exists">>)
    ELSE IoResult("Ok", None,
                  [p \in DOMAIN fs \cup {path} |-> IF p = path THEN write_node(node) ELSE fs[p]],
                  <<"exists", "write">>)

io_load(fs, source, supplied) ==
    IF source = None THEN IoResult("Ok", Some(EmptyMap), fs, <<>>)
    ELSE IF source[1].kind = "File" THEN file_load(fs, source[1].path, supplied)
    ELSE IF source[1].kind = "Directory" THEN directory_load(fs, source[1].path)
    ELSE IoResult("S3 not yet implemented", None, fs, <<>>)

io_save(fs, node, output, supplied, nonce) ==
    IF output.kind = "File" THEN file_save(fs, node, output.path, TRUE, supplied, nonce)
    ELSE IF output.kind = "Directory" THEN directory_save(fs, node, output.path, TRUE)
    ELSE IoResult("S3 not yet implemented", None, fs, <<>>)

IoCall(op, source, node, supplied, r) ==
    /\ last.op = "new"
    /\ store' = r.fs
    /\ last' = [op |-> op, source |-> source, node |-> node, supplied |-> supplied,
                pre |-> store, res |-> r.res, out |-> r.out, calls |-> r.calls]

IoLoad ==
    /\ last.op = "new"
    /\ \E source \in {None} \cup {Some(s) : s \in Sources}, supplied \in Suppliers :
           IoCall("load", source, Leaf(""), supplied, io_load(store, source, supplied))

IoSave ==
    /\ last.op = "new"
    /\ \E node \in IoNodes, output \in Sources, supplied \in Suppliers, nonce \in Nonces :
           IoCall("save", Some(output), node, supplied,
                  io_save(store, node, output, supplied, nonce))

NextIo == IoLoad \/ IoSave \/ Return

SpecIo == Init /\ [][NextIo]_vars

Called(name) == \E i \in 1..Len(last.calls) : last.calls[i] = name

(***************************************************************************)
(* C27: a File load or save whose passphrase supplier is asked and returns *)
(* none fails with "No crypto" and does not panic: the load decrypts       *)
(* nothing and returns no store, the save writes nothing and leaves the    *)
(* file system as it was.  A load without a source returns the empty store *)
(* and a load from a Directory source never asks the supplier.             *)
(***************************************************************************)
C27_NoCrypto ==
    /\ (last.op \in {"load", "save"} /\ Called("supplier") /\ last.supplied = None)
           => /\ last.res = "No crypto"
              /\ last.out = None
              /\ ~Called("decrypt") /\ ~Called("encrypt") /\ ~Called("write")
              /\ store = last.pre
    /\ (last.op \in {"load", "save"} /\ last.source # None /\ last.source[1].kind = "File"
            /\ last.supplied = None)
           => last.res \in {"No crypto", "Reading from file", "File exists"}
    /\ (last.op = "load" /\ last.source = None)
           => last.res = "Ok" /\ last.out = Some(EmptyMap) /\ last.calls = <<>>
    /\ (last.op = "load" /\ last.source # None /\ last.source[1].kind = "Directory")
           => ~Called("supplier")

C27_Witness ==
    /\ last.op = "load"
    /\ last.source # None
    /\ last.source[1].kind = "File"
    /\ last.supplied = None
    /\ file_read_file(last.pre, last.source[1].path) # None
    /\ last.res = "No crypto"
    /\ \E p \in DOMAIN store : store[p].kind = "Dir"

(***************************************************************************)
(* C30: a save to a File or Directory target that exists fails with "File  *)
(* exists" and leaves the file system as it was, for a File target without *)
(* asking the passphrase supplier; a save to an S3 target fails with "S3   *)
(* not yet implemented" and writes nothing.  No save changes a path that   *)
(* existed before it.                                                      *)
(***************************************************************************)
C30_NeverOverwrites ==
    last.op = "save"
        => /\ (last.source[1].kind \in {"File", "Directory"} /\ exists(last.pre, last.source[1].path))
                  => /\ last.res = "File exists"
                     /\ store = last.pre
                     /\ ~Called("supplier")
           /\ last.source[1].kind = "S3"
                  => /\ last.res = "S3 not yet implemented"
                     /\ store = last.pre
                     /\ ~Called("write")
           /\ \A p \in DOMAIN last.pre : exists(store, p) /\ store[p] = last.pre[p]

C30_Witness ==
    /\ last.op = "save"
    /\ last.source[1].kind = "File"
    /\ last.supplied = None
    /\ exists(last.pre, last.source[1].path)
    /\ last.pre[last.source[1].path].kind = "File"
    /\ last.res = "File exists"

====
